---- MODULE Spec2Model ----
(***************************************************************************)
(* A model of src/server.py, the LawDoc RAG service: the four routes       *)
(* (/stats, /search, /ingest_json, /ask) as request handlers running       *)
(* concurrently in worker threads over one shared vector store, with the   *)
(* embedding and chat capabilities as remote calls that may fail.          *)
(*                                                                         *)
(* Strings are sequences of code points (a = 97, newline = 10, ...), so    *)
(* that base64 decoding, UTF-8 decoding, splitting, stripping and id       *)
(* formatting are computed the way the code computes them.                 *)
(***************************************************************************)
EXTENDS Integers, Sequences, FiniteSets, TLC

(***************************************************************************)
(* Bounds of the model.                                                    *)
(***************************************************************************)
\* Largest top_k a caller passes (top_k has no upper clamp in the code).
MaxTopK == 1
\* Longest text the chunker is applied to in SpecChunk.
MaxTextLen == 5

\* Worker threads serving requests at the same time.
Slots == {1, 2}

(***************************************************************************)
(* String helpers.                                                         *)
(***************************************************************************)
NL == <<10, 10>>             \* "\n\n"
COLON == <<58>>              \* ":"
PREFIX == <<100, 111, 99, 115, 95>>   \* "docs_"

\* str.isspace(): the code points str.strip() removes.
IsSpace(c) ==
    c \in ({9, 10, 11, 12, 13, 28, 29, 30, 31, 32, 133, 160, 5760}
           \cup (8192..8202) \cup {8232, 8233, 8239, 8287, 12288})

\* str.lower() on the ASCII letters (the tenant ids of the model are ASCII).
LowerChar(c) == IF c >= 65 /\ c <= 90 THEN c + 32 ELSE c

lower(s) == [i \in 1..Len(s) |-> LowerChar(s[i])]

RECURSIVE LStrip(_)
LStrip(s) ==
    IF s = <<>> THEN <<>>
    ELSE IF IsSpace(Head(s)) THEN LStrip(Tail(s)) ELSE s

RECURSIVE RStrip(_)
RStrip(s) ==
    IF s = <<>> THEN <<>>
    ELSE IF IsSpace(s[Len(s)]) THEN RStrip(SubSeq(s, 1, Len(s) - 1)) ELSE s

\* str.strip()
strip(s) == RStrip(LStrip(s))

\* text.split("\n\n"): the pieces between non-overlapping occurrences of the
\* separator, scanning left to right; always at least one piece.
RECURSIVE SplitFrom(_, _, _)
SplitFrom(t, start, i) ==
    IF i + 1 > Len(t) THEN << SubSeq(t, start, Len(t)) >>
    ELSE IF t[i] = 10 /\ t[i + 1] = 10
         THEN << SubSeq(t, start, i - 1) >> \o SplitFrom(t, i + 2, i + 2)
         ELSE SplitFrom(t, start, i + 1)

split(t) == SplitFrom(t, 1, 1)

RECURSIVE StripNonEmpty(_)
StripNonEmpty(pieces) ==
    IF pieces = <<>> THEN <<>>
    ELSE LET c == strip(Head(pieces))
         IN  (IF c # <<>> THEN << c >> ELSE <<>>) \o StripNonEmpty(Tail(pieces))

\* A chunker that keeps a piece when the piece itself is non-empty, rather
\* than when its stripped form is.
RECURSIVE StripRawNonEmpty(_)
StripRawNonEmpty(pieces) ==
    IF pieces = <<>> THEN <<>>
    ELSE (IF Head(pieces) # <<>> THEN << strip(Head(pieces)) >> ELSE <<>>)
         \o StripRawNonEmpty(Tail(pieces))

ChunkRawFilter(text) == StripRawNonEmpty(split(text))

\* chunks = [c.strip() for c in text.split("\n\n") if c.strip()]
Chunk(text) == StripNonEmpty(split(text))

\* "\n\n".join(chunks)
RECURSIVE JoinNL(_)
JoinNL(cs) ==
    IF cs = <<>> THEN <<>>
    ELSE IF Len(cs) = 1 THEN cs[1]
    ELSE cs[1] \o NL \o JoinNL(Tail(cs))

\* str(i) for a natural number, in decimal.
RECURSIVE Str(_)
Str(i) == IF i < 10 THEN << 48 + i >> ELSE Str(i \div 10) \o << 48 + (i % 10) >>

\* An id format that drops the index.
ChunkIdNoIndex(filename, i) == filename \o COLON \o Str(0)

\* f"{item.filename}:{i}"
ChunkId(filename, i) == filename \o COLON \o Str(i)

(***************************************************************************)
(* base64.b64decode(s) with validate=False, as binascii.a2b_base64 does it *)
(* in non-strict mode: characters outside the alphabet are skipped, a pad  *)
(* sequence that completes a quad ends the parse, and only a dangling      *)
(* quad is an error.                                                       *)
(***************************************************************************)
B64Value(c) ==
    IF c >= 65 /\ c <= 90 THEN c - 65
    ELSE IF c >= 97 /\ c <= 122 THEN c - 71
    ELSE IF c >= 48 /\ c <= 57 THEN c + 4
    ELSE IF c = 43 THEN 62
    ELSE IF c = 47 THEN 63
    ELSE 64

DecodeError == [ok |-> FALSE, bytes |-> <<>>]
Decoded(bs) == [ok |-> TRUE, bytes |-> bs]

RECURSIVE a2b_base64(_, _, _, _, _, _)
a2b_base64(s, i, quad_pos, leftchar, pads, out) ==
    IF i > Len(s)
    THEN IF quad_pos # 0 THEN DecodeError ELSE Decoded(out)
    ELSE LET ch == s[i]
             v  == B64Value(ch)
         IN  IF ch = 61
             THEN IF quad_pos >= 2 /\ quad_pos + pads + 1 >= 4
                  THEN Decoded(out)
                  ELSE a2b_base64(s, i + 1, quad_pos, leftchar,
                                  IF quad_pos >= 2 THEN pads + 1 ELSE pads, out)
             ELSE IF v >= 64
             THEN a2b_base64(s, i + 1, quad_pos, leftchar, pads, out)
             ELSE IF quad_pos = 0
             THEN a2b_base64(s, i + 1, 1, v, 0, out)
             ELSE IF quad_pos = 1
             THEN a2b_base64(s, i + 1, 2, v % 16, 0,
                             Append(out, leftchar * 4 + (v \div 16)))
             ELSE IF quad_pos = 2
             THEN a2b_base64(s, i + 1, 3, v % 4, 0,
                             Append(out, leftchar * 16 + (v \div 4)))
             ELSE a2b_base64(s, i + 1, 0, 0, 0, Append(out, leftchar * 64 + v))

\* base64.b64decode(item.content_b64): a str argument is first encoded as
\* ASCII, which raises for any non-ASCII character.
b64decode(s) ==
    IF \E i \in 1..Len(s) : s[i] > 127
    THEN DecodeError
    ELSE a2b_base64(s, 1, 0, 0, 0, <<>>)

(***************************************************************************)
(* bytes.decode("utf-8", errors="ignore"): well-formed sequences become    *)
(* code points, every other byte is dropped.                               *)
(***************************************************************************)
InRange(bs, j, lo, hi) == j <= Len(bs) /\ bs[j] >= lo /\ bs[j] <= hi
Cont(bs, j) == InRange(bs, j, 128, 191)

RECURSIVE Utf8From(_, _)
Utf8From(bs, i) ==
    IF i > Len(bs) THEN <<>>
    ELSE LET b == bs[i] IN
         IF b < 128 THEN << b >> \o Utf8From(bs, i + 1)
         ELSE IF b >= 194 /\ b <= 223 /\ Cont(bs, i + 1)
         THEN << (b % 32) * 64 + (bs[i + 1] % 64) >> \o Utf8From(bs, i + 2)
         ELSE IF b >= 224 /\ b <= 239
                 /\ InRange(bs, i + 1, IF b = 224 THEN 160 ELSE 128,
                                        IF b = 237 THEN 159 ELSE 191)
                 /\ Cont(bs, i + 2)
         THEN << (b % 16) * 4096 + (bs[i + 1] % 64) * 64 + (bs[i + 2] % 64) >>
              \o Utf8From(bs, i + 3)
         ELSE IF b >= 240 /\ b <= 244
                 /\ InRange(bs, i + 1, IF b = 240 THEN 144 ELSE 128,
                                        IF b = 244 THEN 143 ELSE 191)
                 /\ Cont(bs, i + 2) /\ Cont(bs, i + 3)
         THEN << (b % 8) * 262144 + (bs[i + 1] % 64) * 4096
                 + (bs[i + 2] % 64) * 64 + (bs[i + 3] % 64) >>
              \o Utf8From(bs, i + 4)
         ELSE Utf8From(bs, i + 1)

decode_utf8_ignore(bs) == Utf8From(bs, 1)

(***************************************************************************)
(* Configuration, inputs and state.                                        *)
(***************************************************************************)
None == "None"               \* Python's None: no x-api-key header, no ACTION_KEY
SECRET == "s3cret"
SENTINEL == "Not found in the provided documents."
\* d[:240], the snippet and preview length
SnippetLen == 240

Clients == { <<97>>, <<65>>, <<98>> }            \* "a", "A", "b"
Filenames == { <<102>> }                        \* "f"
Keys == { None, "wrong", SECRET }
\* The x-api-key headers callers send. With no ACTION_KEY the header is read
\* by nothing (check_action_key passes whatever it holds), so one value
\* stands for all of them there.
KeysSent(action_key) == IF action_key = None THEN { None } ELSE Keys
TopKs == 1..MaxTopK

B64_JUNK      == <<37, 37, 37>>                      \* "%%%"
B64_BLANK     == <<73, 65, 111, 75, 73, 65, 61, 61>> \* " \n\n "
B64_BAD_PAD   == <<89, 81, 61>>                      \* "YQ=", a dangling quad
B64_TWO       == <<89, 81, 111, 75, 67, 105, 66, 105, 47, 119, 61, 61>>
                                                     \* b"a\n\n\n b\xff"
B64_JUNK_ONE  == <<37, 89, 119, 61, 61>>             \* "%Yw==", read as "c"
Contents == { B64_JUNK, B64_BLANK, B64_BAD_PAD, B64_TWO, B64_JUNK_ONE }

\* Whether a string is well-formed base64: characters of the alphabet and
\* padding only, in whole quads.
ValidBase64(s) ==
    /\ \A i \in 1..Len(s) : s[i] = 61 \/ B64Value(s[i]) < 64
    /\ b64decode(s).ok

\* Status of a remote call's HTTP response.
RemoteStatuses == { 200, 500 }

VARIABLES
    ACTION_KEY,     \* os.getenv("ACTION_KEY"), fixed at start-up
    collections,    \* the store: collection name -> (id -> entry)
    pc,             \* per worker: where its request handler stands
    req,            \* per worker: the request being served
    chunks,         \* per worker: ingest_json's local `chunks`
    results,        \* per worker: the result of the handler's col.query(...)
    resp,           \* per worker: the response, once the handler has ended
    calls,          \* per worker: external calls made while serving the request
    doc_text,       \* SpecChunk: a text
    stage,          \* SpecChunk: "text", "chunked" or "rechunked"
    chunked,        \* SpecChunk: Chunk(doc_text)
    rechunked       \* SpecChunk: Chunk of chunked joined by blank lines

serverVars == << ACTION_KEY, collections, pc, req, chunks, results, resp, calls >>
chunkVars == << doc_text, stage, chunked, rechunked >>
vars == << ACTION_KEY, collections, pc, req, chunks, results, resp, calls,
           doc_text, stage, chunked, rechunked >>

NoReq == [route |-> "none", client |-> <<>>, filename |-> <<>>,
          content_b64 |-> <<>>, top_k |-> 0, x_api_key |-> None]
NoResp == [status |-> 0, detail |-> "", added |-> 0, count |-> 0,
           answer |-> "", sources |-> <<>>, hits |-> <<>>]
\* embed_status is the HTTP status of the embedding response, 0 before it.
ZeroCalls == [embed |-> 0, embed_status |-> 0, chat |-> 0, get |-> 0,
              create |-> 0, query |-> 0, upsert |-> 0]
EmptyCollection == [k \in {} |-> 0]

HTTPException(status_code, detail) ==
    [NoResp EXCEPT !.status = status_code, !.detail = detail]

(***************************************************************************)
(* The store (chromadb), by the contract of the calls the code makes.      *)
(***************************************************************************)
\* A naming that does not normalise case.
CollectionNameNoLower(client_id) == PREFIX \o client_id

\* f"docs_{client_id}".lower()
collection_name(client_id) == lower(PREFIX \o client_id)

Range(s) == { s[i] : i \in 1..Len(s) }
Min(a, b) == IF a <= b THEN a ELSE b

\* An upsert that first empties the collection.
UpsertReplaceAll(col, ids, documents, metadatas, embeddings) ==
    [k \in Range(ids) |->
        LET i == CHOOSE j \in 1..Len(ids) : ids[j] = k
        IN  [document |-> documents[i], metadata |-> metadatas[i],
             embedding |-> embeddings[i]]]

\* col.upsert(ids, documents, metadatas, embeddings): every listed id is
\* inserted or overwritten, every other entry is left as it is.
upsert(col, ids, documents, metadatas, embeddings) ==
    [k \in (DOMAIN col) \cup Range(ids) |->
        IF k \in Range(ids)
        THEN LET i == CHOOSE j \in 1..Len(ids) : ids[j] = k
             IN  [document |-> documents[i], metadata |-> metadatas[i],
                  embedding |-> embeddings[i]]
        ELSE col[k]]

\* col.query(query_texts=[q], n_results=top_k, include=[metadatas, documents]):
\* the n_results most similar entries, fewer when the collection holds
\* fewer; the ranking is the store's, so any order of any such choice.
query(col, n_results) ==
    LET n == Min(n_results, Cardinality(DOMAIN col))
    IN  { [documents |-> << [i \in 1..n |-> col[ids[i]].document] >>,
           metadatas |-> << [i \in 1..n |-> col[ids[i]].metadata] >>] :
          ids \in { s \in [1..n -> DOMAIN col] :
                      \A i, j \in 1..n : s[i] = s[j] => i = j } }

\* The embedding of a text, as the remote capability computes it.
Embedding(t) == << "embedding", t >>

Take(s, n) == SubSeq(s, 1, Min(n, Len(s)))

(***************************************************************************)
(* Helpers of the handlers.                                                *)
(***************************************************************************)
\* A check that lets a request without the header through.
CheckActionKeyMissingOk(x_api_key) ==
    ACTION_KEY # None /\ ACTION_KEY # "" /\ x_api_key # None
    /\ x_api_key # ACTION_KEY

\* check_action_key raises 401: ACTION_KEY is set (truthy) and differs.
check_action_key(x_api_key) ==
    ACTION_KEY # None /\ ACTION_KEY # "" /\ x_api_key # ACTION_KEY

\* The handler of worker r ends with response rs.
Finish(r, rs) ==
    /\ pc' = [pc EXCEPT ![r] = "done"]
    /\ resp' = [resp EXCEPT ![r] = rs]

Goto(r, label) ==
    /\ pc' = [pc EXCEPT ![r] = label]
    /\ UNCHANGED resp

Called(r, what) == calls' = [calls EXCEPT ![r][what] = @ + 1]

\* Where a handler continues once ensure_collection has returned.
AfterEnsure(route) ==
    CASE route = "ingest" -> "upsert"
      [] route = "stats" -> "count"
      [] OTHER -> "query"

Accept(r, request) ==
    /\ req' = [req EXCEPT ![r] = request]
    /\ calls' = [calls EXCEPT ![r] = ZeroCalls]

(***************************************************************************)
(* GET / : home                                                            *)
(***************************************************************************)
Home(r) ==
    /\ pc[r] = "idle"
    /\ Accept(r, [NoReq EXCEPT !.route = "home"])
    /\ Finish(r, [NoResp EXCEPT !.status = 200,
                                !.detail = "RAG API is running. See /docs."])
    /\ UNCHANGED << ACTION_KEY, collections, chunks, results, chunkVars >>

(***************************************************************************)
(* ensure_collection(client_id), in its two store calls.                   *)
(***************************************************************************)
\* return client.get_collection(name); a missing collection raises, and
\* the except clause goes on to create it.
GetCollection(r) ==
    /\ pc[r] = "ensure_get"
    /\ Called(r, "get")
    /\ IF collection_name(req[r].client) \in DOMAIN collections
       THEN Goto(r, AfterEnsure(req[r].route))
       ELSE Goto(r, "ensure_create")
    /\ UNCHANGED << ACTION_KEY, collections, req, chunks, results, chunkVars >>

\* return client.create_collection(name=name); the store raises when a
\* collection of that name exists by now, and nothing catches it: the
\* request ends with a 500.
CreateCollection(r) ==
    /\ pc[r] = "ensure_create"
    /\ LET name == collection_name(req[r].client)
       IN  IF name \in DOMAIN collections
           THEN /\ Finish(r, HTTPException(500, "Internal Server Error"))
                /\ UNCHANGED << collections, calls >>
           ELSE /\ collections' = (name :> EmptyCollection) @@ collections
                /\ Called(r, "create")
                /\ Goto(r, AfterEnsure(req[r].route))
    /\ UNCHANGED << ACTION_KEY, req, chunks, results, chunkVars >>

(***************************************************************************)
(* GET /stats                                                              *)
(***************************************************************************)
Stats(r) ==
    /\ pc[r] = "idle"
    /\ \E client \in Clients :
          Accept(r, [NoReq EXCEPT !.route = "stats", !.client = client])
    /\ Goto(r, "ensure_get")
    /\ UNCHANGED << ACTION_KEY, collections, chunks, results, chunkVars >>

\* return {"client": client, "count": col.count()}
StatsCount(r) ==
    /\ pc[r] = "count"
    /\ LET col == collections[collection_name(req[r].client)]
       IN  Finish(r, [NoResp EXCEPT !.status = 200,
                                    !.count = Cardinality(DOMAIN col)])
    /\ UNCHANGED << ACTION_KEY, collections, req, chunks, results, calls, chunkVars >>

(***************************************************************************)
(* GET /search                                                             *)
(***************************************************************************)
Search(r) ==
    /\ pc[r] = "idle"
    /\ \E client \in Clients, top_k \in TopKs :
          Accept(r, [NoReq EXCEPT !.route = "search", !.client = client,
                                  !.top_k = top_k])
    /\ Goto(r, "ensure_get")
    /\ UNCHANGED << ACTION_KEY, collections, chunks, results, chunkVars >>

SearchQuery(r) ==
    /\ pc[r] = "query" /\ req[r].route = "search"
    /\ Called(r, "query")
    /\ \E res \in query(collections[collection_name(req[r].client)],
                        req[r].top_k) :
          LET docs == res.documents[1]
              metas == res.metadatas[1]
          IN  /\ results' = [results EXCEPT ![r] = res]
              /\ Finish(r, [NoResp EXCEPT
                     !.status = 200,
                     !.hits = [i \in 1..Min(Len(docs), Len(metas)) |->
                                  [filename |-> metas[i].filename,
                                   preview |-> Take(docs[i], SnippetLen)]]])
    /\ UNCHANGED << ACTION_KEY, collections, req, chunks, chunkVars >>

(***************************************************************************)
(* POST /ingest_json                                                       *)
(***************************************************************************)
\* Lines 106-118: the key check, the decoding and the chunking, all local.
IngestJson(r) ==
    /\ pc[r] = "idle"
    /\ \E client \in Clients, filename \in Filenames,
          content_b64 \in Contents, x_api_key \in KeysSent(ACTION_KEY) :
          LET item == [NoReq EXCEPT !.route = "ingest", !.client = client,
                                    !.filename = filename,
                                    !.content_b64 = content_b64,
                                    !.x_api_key = x_api_key]
              content_bytes == b64decode(content_b64)
              text == decode_utf8_ignore(content_bytes.bytes)
              cs == Chunk(text)
          IN  /\ Accept(r, item)
              /\ IF check_action_key(x_api_key)
                 THEN /\ Finish(r, HTTPException(401, "Invalid action key"))
                      /\ UNCHANGED chunks
                 ELSE IF ~content_bytes.ok
                 THEN /\ Finish(r, HTTPException(400, "Invalid base64"))
                      /\ UNCHANGED chunks
                 ELSE IF cs = <<>>
                 THEN /\ Finish(r, HTTPException(400, "No text chunks"))
                      /\ UNCHANGED chunks
                 ELSE /\ Goto(r, "embed")
                      /\ chunks' = [chunks EXCEPT ![r] = cs]
    /\ UNCHANGED << ACTION_KEY, collections, results, chunkVars >>

\* An embed step that goes on to the store whatever the response status.
EmbedTextsIgnoreFailure(r) ==
    /\ pc[r] = "embed"
    /\ \E status_code \in RemoteStatuses :
          calls' = [calls EXCEPT ![r].embed = @ + 1,
                                 ![r].embed_status = status_code]
    /\ Goto(r, "ensure_get")
    /\ UNCHANGED << ACTION_KEY, collections, req, chunks, results, chunkVars >>

\* vecs = embed_texts(chunks): one batched remote call; any status but 200
\* raises 502.
EmbedTexts(r) ==
    /\ pc[r] = "embed"
    /\ \E status_code \in RemoteStatuses :
          /\ calls' = [calls EXCEPT ![r].embed = @ + 1,
                                    ![r].embed_status = status_code]
          /\ IF status_code # 200
             THEN Finish(r, HTTPException(502, "Embed failed"))
             ELSE Goto(r, "ensure_get")
    /\ UNCHANGED << ACTION_KEY, collections, req, chunks, results, chunkVars >>

\* Lines 123-126: ids, metas, col.upsert(...) and the response.
Upsert(r) ==
    /\ pc[r] = "upsert"
    /\ LET item == req[r]
           name == collection_name(item.client)
           n == Len(chunks[r])
           vecs == [i \in 1..n |-> Embedding(chunks[r][i])]
           ids == [i \in 1..n |-> ChunkId(item.filename, i - 1)]
           metas == [i \in 1..n |-> [filename |-> item.filename]]
       IN  /\ collections' = [collections EXCEPT
                  ![name] = upsert(@, ids, chunks[r], metas, vecs)]
           /\ Called(r, "upsert")
           /\ Finish(r, [NoResp EXCEPT !.status = 200, !.added = n])
    /\ UNCHANGED << ACTION_KEY, req, chunks, results, chunkVars >>

(***************************************************************************)
(* POST /ask                                                               *)
(***************************************************************************)
Ask(r) ==
    /\ pc[r] = "idle"
    /\ \E client \in Clients, top_k \in TopKs, x_api_key \in KeysSent(ACTION_KEY) :
          /\ Accept(r, [NoReq EXCEPT !.route = "ask", !.client = client,
                                     !.top_k = top_k, !.x_api_key = x_api_key])
          /\ IF check_action_key(x_api_key)
             THEN Finish(r, HTTPException(401, "Invalid action key"))
             ELSE Goto(r, "ensure_get")
    /\ UNCHANGED << ACTION_KEY, collections, chunks, results, chunkVars >>

\* A query step without the empty-result return.
AskQueryNoEmptyCheck(r) ==
    /\ pc[r] = "query" /\ req[r].route = "ask"
    /\ Called(r, "query")
    /\ \E res \in query(collections[collection_name(req[r].client)],
                        req[r].top_k) :
          results' = [results EXCEPT ![r] = res]
    /\ Goto(r, "chat")
    /\ UNCHANGED << ACTION_KEY, collections, req, chunks, chunkVars >>

\* Lines 132-134: the query, and the sentinel answer when it is empty.
AskQuery(r) ==
    /\ pc[r] = "query" /\ req[r].route = "ask"
    /\ Called(r, "query")
    /\ \E res \in query(collections[collection_name(req[r].client)],
                        req[r].top_k) :
          /\ results' = [results EXCEPT ![r] = res]
          /\ IF res.documents = <<>> \/ res.documents[1] = <<>>
             THEN Finish(r, [NoResp EXCEPT !.status = 200, !.answer = SENTINEL,
                                           !.sources = <<>>])
             ELSE Goto(r, "chat")
    /\ UNCHANGED << ACTION_KEY, collections, req, chunks, chunkVars >>

\* Lines 136-146: the sources, chat_answer(req.q, context) and the response.
\* The context string goes to the remote capability only.
ChatAnswer(r) ==
    /\ pc[r] = "chat"
    /\ Called(r, "chat")
    /\ LET docs == results[r].documents[1]
           metas == results[r].metadatas[1]
           sources == [i \in 1..Min(Len(docs), Len(metas)) |->
                          [id |-> i, filename |-> metas[i].filename,
                           snippet |-> Take(docs[i], SnippetLen)]]
       IN  \E status_code \in RemoteStatuses :
              IF status_code # 200
              THEN Finish(r, HTTPException(502, "Chat failed"))
              ELSE Finish(r, [NoResp EXCEPT !.status = 200,
                                            !.answer = "generated",
                                            !.sources = sources])
    /\ UNCHANGED << ACTION_KEY, collections, req, chunks, results, chunkVars >>

(***************************************************************************)
(* The response is sent and the worker takes the next request.             *)
(***************************************************************************)
NoResults == [documents |-> <<>>, metadatas |-> <<>>]

Respond(r) ==
    /\ pc[r] = "done"
    /\ pc' = [pc EXCEPT ![r] = "idle"]
    /\ req' = [req EXCEPT ![r] = NoReq]
    /\ resp' = [resp EXCEPT ![r] = NoResp]
    /\ chunks' = [chunks EXCEPT ![r] = <<>>]
    /\ results' = [results EXCEPT ![r] = NoResults]
    /\ calls' = [calls EXCEPT ![r] = ZeroCalls]
    /\ UNCHANGED << ACTION_KEY, collections, chunkVars >>

(***************************************************************************)
(* The service.                                                            *)
(***************************************************************************)
Init ==
    /\ ACTION_KEY \in { None, SECRET }
    /\ collections = [n \in {} |-> EmptyCollection]
    /\ pc = [r \in Slots |-> "idle"]
    /\ req = [r \in Slots |-> NoReq]
    /\ chunks = [r \in Slots |-> <<>>]
    /\ results = [r \in Slots |-> NoResults]
    /\ resp = [r \in Slots |-> NoResp]
    /\ calls = [r \in Slots |-> ZeroCalls]
    /\ doc_text = <<>>
    /\ stage = "off"
    /\ chunked = <<>>
    /\ rechunked = <<>>

Next ==
    \E r \in Slots :
        \/ Home(r)
        \/ Stats(r)
        \/ StatsCount(r)
        \/ Search(r)
        \/ SearchQuery(r)
        \/ IngestJson(r)
        \/ EmbedTexts(r)
        \/ GetCollection(r)
        \/ CreateCollection(r)
        \/ Upsert(r)
        \/ Ask(r)
        \/ AskQuery(r)
        \/ ChatAnswer(r)
        \/ Respond(r)

Spec == Init /\ [][Next]_vars

(***************************************************************************)
(* The chunker on its own: every text over a small alphabet is chunked,    *)
(* and the chunks, joined by blank lines, are chunked again.               *)
(***************************************************************************)
TextAlphabet == { 97, 98, 32, 10 }               \* "a", "b", " ", "\n"
Texts == UNION { [1..n -> TextAlphabet] : n \in 0..MaxTextLen }

InitChunk ==
    /\ ACTION_KEY = None
    /\ collections = [n \in {} |-> EmptyCollection]
    /\ pc = [r \in Slots |-> "idle"]
    /\ req = [r \in Slots |-> NoReq]
    /\ chunks = [r \in Slots |-> <<>>]
    /\ results = [r \in Slots |-> NoResults]
    /\ resp = [r \in Slots |-> NoResp]
    /\ calls = [r \in Slots |-> ZeroCalls]
    /\ doc_text \in Texts
    /\ stage = "text"
    /\ chunked = <<>>
    /\ rechunked = <<>>

ChunkText ==
    /\ stage = "text"
    /\ chunked' = Chunk(doc_text)
    /\ stage' = "chunked"
    /\ UNCHANGED << serverVars, doc_text, rechunked >>

RechunkJoined ==
    /\ stage = "chunked"
    /\ rechunked' = Chunk(JoinNL(chunked))
    /\ stage' = "rechunked"
    /\ UNCHANGED << serverVars, doc_text, chunked >>

NextChunk == ChunkText \/ RechunkJoined

SpecChunk == InitChunk /\ [][NextChunk]_vars

(***************************************************************************)
(* Properties.                                                             *)
(***************************************************************************)
\* The chunks of the text an ingest body decodes to.
DecodedChunks(content_b64) ==
    Chunk(decode_utf8_ignore(b64decode(content_b64).bytes))

\* The partition the data model names for a tenant: the fixed prefix plus
\* the lower-cased id.
PartitionOf(tenant) == PREFIX \o lower(tenant)

Count(col) == Cardinality(DOMAIN col)

DOCS_A == <<100, 111, 99, 115, 95, 97>>          \* "docs_a"
DOCS_B == <<100, 111, 99, 115, 95, 98>>          \* "docs_b"
F_0 == <<102, 58, 48>>                           \* "f:0"
F_1 == <<102, 58, 49>>                           \* "f:1"

Moved(r) == pc'[r] # pc[r]

\* What holds of an ingest once its embedding response is in.
C1_EmbedFailureState ==
    \A r \in Slots :
        /\ (req[r].route = "ingest" /\ calls[r].embed_status \notin {0, 200})
           => /\ pc[r] = "done"
              /\ resp[r].status = 502
              /\ calls[r].upsert = 0
              /\ calls[r].create = 0
        /\ (req[r].route = "ingest" /\ (pc[r] = "upsert" \/ calls[r].upsert > 0))
           => calls[r].embed_status = 200

\* C1: an ingest whose embedding response is not a success has ended with
\* 502, has issued no upsert and created no partition, the step that fails
\* leaves every partition as it was, and no ingest reaches its upsert
\* without a successful embedding.
C1_EmbedFailureAbortsIngest ==
    /\ []C1_EmbedFailureState
    /\ [][\A r \in Slots :
            (pc[r] = "embed" /\ Moved(r) /\ calls'[r].embed_status # 200)
            => collections' = collections]_vars

C1_Witness ==
    \E r \in Slots :
        /\ req[r].route = "ingest" /\ req[r].client = <<97>>
        /\ calls[r].embed_status = 500
        /\ resp[r].status = 502
        /\ DOCS_A \in DOMAIN collections
        /\ Count(collections[DOCS_A]) = 2

\* Malformed ingest input: ill-formed base64, or text without a chunk.
Malformed(content_b64) ==
    ~ValidBase64(content_b64) \/ DecodedChunks(content_b64) = <<>>

\* C2: every authorised ingest whose content_b64 is not valid base64, or
\* whose decoded text has no non-empty chunk, ends with 400 without calling
\* the embedding capability or the store.
C2_MalformedIngestRejected ==
    \A r \in Slots :
        (/\ req[r].route = "ingest"
         /\ ~check_action_key(req[r].x_api_key)
         /\ Malformed(req[r].content_b64))
        => /\ pc[r] = "done"
           /\ resp[r].status = 400
           /\ calls[r] = ZeroCalls

\* C3: the step that ends an ingest successfully answers added = N, the
\* number of non-empty chunks of the decoded text (N >= 1), and leaves in the
\* tenant's partition, for every i in 0..N-1, id "F:i" with the i-th chunk
\* as document and F as metadata filename.
C3_IngestStoresChunks ==
    [][\A r \in Slots :
         (pc[r] = "upsert" /\ pc'[r] = "done")
         => LET item == req[r]
                cs == DecodedChunks(item.content_b64)
                col == collections'[PartitionOf(item.client)]
            IN  /\ resp'[r].status = 200
                /\ resp'[r].added = Len(cs)
                /\ Len(cs) >= 1
                /\ \A i \in 0..(Len(cs) - 1) :
                      LET id == item.filename \o COLON \o Str(i)
                      IN  /\ id \in DOMAIN col
                          /\ col[id].document = cs[i + 1]
                          /\ col[id].metadata.filename = item.filename]_vars

C3_Witness ==
    \E r \in Slots :
        /\ req[r].route = "ingest" /\ req[r].content_b64 = B64_TWO
        /\ req[r].client = <<65>>
        /\ pc[r] = "done" /\ resp[r].status = 200 /\ resp[r].added = 2
        /\ DOCS_A \in DOMAIN collections
        /\ DOMAIN collections[DOCS_A] = { F_0, F_1 }
        /\ collections[DOCS_A][F_0].document = <<97>>
        /\ collections[DOCS_A][F_1].document = <<98>>
        /\ collections[DOCS_A][F_1].metadata.filename = <<102>>

\* What holds of a keyed request when a shared secret is configured.
C4_KeyState ==
    (ACTION_KEY # None /\ ACTION_KEY # "")
    => \A r \in Slots :
          req[r].route \in {"ingest", "ask"}
          => /\ (req[r].x_api_key # ACTION_KEY)
                => /\ pc[r] = "done"
                   /\ resp[r].status = 401
                   /\ calls[r] = ZeroCalls
                   /\ chunks[r] = <<>>
             /\ (req[r].x_api_key = ACTION_KEY) => resp[r].status # 401

\* C4: with a shared secret configured, an /ingest_json or /ask request
\* whose x-api-key is wrong or missing has ended with 401 having made no
\* external call and computed no chunks, whatever its body; the step that
\* rejects it changes no partition; and a request with the right key never
\* gets 401.
C4_WrongKeyRejectedFirst ==
    /\ []C4_KeyState
    /\ [][\A r \in Slots :
            (pc[r] = "idle" /\ resp'[r].status = 401)
            => collections' = collections]_vars

C4_Witness ==
    /\ ACTION_KEY = SECRET
    /\ \E r, o \in Slots :
          /\ req[r].route = "ingest" /\ req[r].x_api_key = "wrong"
          /\ req[r].content_b64 = B64_BAD_PAD
          /\ resp[r].status = 401
          /\ req[o].route = "ask" /\ req[o].x_api_key = SECRET
          /\ resp[o].status = 200

\* What holds of an ask whose query result has no rows.
NoRows(res) == \A i \in 1..Len(res.documents) : res.documents[i] = <<>>

C5_SentinelState ==
    \A r \in Slots :
        (req[r].route = "ask" /\ calls[r].query > 0 /\ NoRows(results[r]))
        => /\ pc[r] = "done"
           /\ resp[r].status = 200
           /\ resp[r].answer = SENTINEL
           /\ resp[r].sources = <<>>
           /\ calls[r].chat = 0

\* C5: an ask whose query returned no rows has ended with the fixed answer
\* and an empty sources list without any call of the generation capability;
\* and the step that queries a partition holding no chunk ends the ask that
\* way.
C5_EmptyAskSkipsGeneration ==
    /\ []C5_SentinelState
    /\ [][\A r \in Slots :
            (/\ pc[r] = "query" /\ req[r].route = "ask" /\ Moved(r)
             /\ Count(collections[PartitionOf(req[r].client)]) = 0)
            => /\ pc'[r] = "done"
               /\ resp'[r].answer = SENTINEL
               /\ resp'[r].sources = <<>>
               /\ calls'[r].chat = 0]_vars

C5_Witness ==
    \E r \in Slots :
        /\ req[r].route = "ask" /\ pc[r] = "done"
        /\ calls[r].query = 1 /\ calls[r].chat = 0
        /\ results[r].documents = << <<>> >>
        /\ resp[r].answer = SENTINEL /\ resp[r].sources = <<>>

\* C6: no call of ensure_collection raises: no request that resolves a
\* partition ends with a 500.
C6_ResolveNeverRaises ==
    \A r \in Slots :
        (req[r].route \in {"stats", "search", "ingest", "ask"}
         /\ calls[r].get > 0)
        => resp[r].status # 500

\* Two requests resolve to one partition exactly when their tenant ids
\* agree once lower-cased.
C7_SharedByCase ==
    \A r, o \in Slots :
        (req[r].route \in {"stats", "search", "ingest", "ask"}
         /\ req[o].route \in {"stats", "search", "ingest", "ask"})
        => ((collection_name(req[r].client) = collection_name(req[o].client))
            <=> (lower(req[r].client) = lower(req[o].client)))

\* C7: every partition a step creates or changes is the one named by the
\* prefix plus the lower-cased tenant id of the request that took the step
\* (so the partition of a tenant with another lower-cased id is untouched),
\* and two tenant ids resolve to the same partition exactly when their
\* lower-cased forms agree.
C7_TenantIsolation ==
    /\ []C7_SharedByCase
    /\ [][(collections' # collections)
          => \A n \in DOMAIN collections' :
                (n \notin DOMAIN collections \/ collections'[n] # collections[n])
                => \E r \in Slots : Moved(r) /\ n = PartitionOf(req[r].client)
         ]_vars

C7_Witness ==
    /\ DOCS_A \in DOMAIN collections /\ DOCS_B \in DOMAIN collections
    /\ Count(collections[DOCS_A]) = 2 /\ Count(collections[DOCS_B]) = 0
    /\ \E r, o \in Slots :
          /\ req[r].route = "ingest" /\ req[r].client = <<65>>
          /\ resp[r].status = 200
          /\ req[o].route = "stats" /\ req[o].client = <<97>>
          /\ resp[o].status = 200 /\ resp[o].count = 2

\* C8: chunking the chunks of a text, joined by blank lines, gives the same
\* chunks in the same order.
C8_ChunkIdempotent ==
    stage = "rechunked" => rechunked = chunked

C8_Witness ==
    /\ stage = "rechunked"
    /\ Len(chunked) = 2
    /\ doc_text # JoinNL(chunked)
    /\ rechunked = chunked

\* C9: no step removes a partition or lowers a partition's count; an
\* ingest's upsert leaves every entry outside its ids "F:0".."F:(M-1)" as it
\* was and puts its chunks at those ids; so when the partition held
\* "F:0".."F:(N-1)" with N > M, the higher ids keep the earlier chunks and
\* the count is the same.
C9_OverwriteNeverRemoves ==
    [][/\ \A n \in DOMAIN collections :
            /\ n \in DOMAIN collections'
            /\ Count(collections'[n]) >= Count(collections[n])
       /\ \A r \in Slots :
            (pc[r] = "upsert" /\ pc'[r] = "done")
            => LET n == PartitionOf(req[r].client)
                   old == collections[n]
                   new == collections'[n]
                   M == Len(chunks[r])
                   ids == { req[r].filename \o COLON \o Str(i) : i \in 0..(M - 1) }
               IN  /\ \A k \in DOMAIN old :
                         k \in DOMAIN new /\ (k \notin ids => new[k] = old[k])
                   /\ \A i \in 0..(M - 1) :
                         new[req[r].filename \o COLON \o Str(i)].document
                            = chunks[r][i + 1]
                   /\ (ids \subseteq DOMAIN old) => Count(new) = Count(old)
      ]_vars

C9_Witness ==
    /\ DOCS_A \in DOMAIN collections
    /\ DOMAIN collections[DOCS_A] = { F_0, F_1 }
    /\ collections[DOCS_A][F_0].document = <<99>>
    /\ collections[DOCS_A][F_1].document = <<98>>
    /\ \E r \in Slots :
          /\ req[r].route = "ingest" /\ pc[r] = "done"
          /\ resp[r].status = 200 /\ resp[r].added = 1

\* The partition after the upsert of request r is applied to col.
UpsertOf(col, r) ==
    LET n == Len(chunks[r])
    IN  upsert(col,
               [i \in 1..n |-> ChunkId(req[r].filename, i - 1)],
               chunks[r],
               [i \in 1..n |-> [filename |-> req[r].filename]],
               [i \in 1..n |-> Embedding(chunks[r][i])])

\* C10: when two ingests to the same tenant and filename have both ended
\* and the embedding of each completed, each has issued exactly one upsert
\* and the partition is what running the two upserts one after the other,
\* in one of the two orders, leaves.
C10_ConcurrentIngestLastWriteWins ==
    \A r, o \in Slots :
        (/\ r # o
         /\ pc[r] = "done" /\ pc[o] = "done"
         /\ req[r].route = "ingest" /\ req[o].route = "ingest"
         /\ collection_name(req[r].client) = collection_name(req[o].client)
         /\ req[r].filename = req[o].filename
         /\ calls[r].embed_status = 200 /\ calls[o].embed_status = 200)
        => /\ calls[r].upsert = 1 /\ calls[o].upsert = 1
           /\ LET n == collection_name(req[r].client)
              IN  /\ n \in DOMAIN collections
                  /\ \/ collections[n] = UpsertOf(UpsertOf(collections[n], r), o)
                     \/ collections[n] = UpsertOf(UpsertOf(collections[n], o), r)

====
